---- MODULE Spec2Model ----
(***************************************************************************)
(* NarioJ.cpp: read two sequences of doubles from standard input (a size   *)
(* per sequence, clamped to 10, then that many numbers), concatenate them, *)
(* selection-sort the result in descending order and print it.             *)
(*                                                                         *)
(* Standard input is modelled at character level: buf holds the characters *)
(* typed and not yet consumed, and the formatted extractions (cin >> int,  *)
(* cin >> double), cin.ignore and the default formatting of operator<< are *)
(* operators over character sequences and numbers.  A double is held as an *)
(* integer count of tenths (Unit), so 2.5 is 25.  Code indices are 0-based *)
(* as in the source; At(s, k) reads element k of a vector.                 *)
(***************************************************************************)
EXTENDS Integers, Sequences, FiniteSets, Bags, TLC

VARIABLES
    pc,           \* position of main
    buf,          \* characters typed on stdin and not yet consumed
    eof,          \* stdin has been closed
    typed,        \* number of lines typed so far (environment bound)
    prompt,       \* the last prompt or error message written to cout
    size1, size2, \* int size1, size2
    num,          \* double num
    arr1, arr2, mergedArray,
    i, j,         \* loop counters
    n, maxIndex, temp,
    printed       \* what lines 80-84 wrote after the label

vars == <<pc, buf, eof, typed, prompt, size1, size2, num, arr1, arr2,
          mergedArray, i, j, n, maxIndex, temp, printed>>

-----------------------------------------------------------------------------
(* Bounds of the environment and constants of the program *)

MaxLines == 4

MaxSize == 10

IgnoreMax == 10000

IntMax == 2147483647

IntMin == -IntMax - 1

Unit == 10

Precision == 6

Unset == -1

NL == "\n"

DigitChars == <<"0", "1", "2", "3", "4", "5", "6", "7", "8", "9">>

IsDigit(c) == \E k \in 1..10 : DigitChars[k] = c

DigitVal(c) == (CHOOSE k \in 1..10 : DigitChars[k] = c) - 1

IsSpace(c) == c \in {" ", NL}

At(s, k) == s[k + 1]

-----------------------------------------------------------------------------
(* The stream operations *)

RECURSIVE SkipWs(_)
SkipWs(s) ==
    IF s # <<>> /\ IsSpace(Head(s)) THEN SkipWs(Tail(s)) ELSE s

\* The sentry of operator>> succeeds: after the leading whitespace there is
\* a character to look at.  (At end of input it fails; on an open stream
\* with nothing typed the call blocks.)
CanExtract == SkipWs(buf) # <<>>

Blocked == ~CanExtract /\ ~eof

\* num_get for int, base 10: an optional sign, then decimal digits; the first
\* other character ends the field and stays in the stream.  acc carries the
\* signed value; a value out of the range of int sets ovf.
RECURSIVE ScanInt(_, _, _, _, _)
ScanInt(neg, acc, ovf, nd, s) ==
    IF s # <<>> /\ IsDigit(Head(s))
    THEN LET d == DigitVal(Head(s))
             o == ovf \/ (IF neg THEN acc < (IntMin + d + 9) \div 10
                                 ELSE acc > (IntMax - d) \div 10)
             a == IF o THEN acc ELSE IF neg THEN acc * 10 - d ELSE acc * 10 + d
         IN  ScanInt(neg, a, o, nd + 1, Tail(s))
    ELSE [val |-> acc, ovf |-> ovf, nd |-> nd, rest |-> s]

\* cin >> size on a stream whose sentry succeeded.  Since C++11 a failed
\* conversion stores 0, and an out-of-range one the nearest limit, with
\* failbit set in both cases.
ExtractInt(s0) ==
    LET s    == SkipWs(s0)
        sign == s # <<>> /\ Head(s) \in {"-", "+"}
        neg  == s # <<>> /\ Head(s) = "-"
        r    == ScanInt(neg, 0, FALSE, 0, IF sign THEN Tail(s) ELSE s)
    IN  IF r.nd = 0 THEN [fail |-> TRUE, val |-> 0, rest |-> r.rest]
        ELSE IF r.ovf
             THEN [fail |-> TRUE, val |-> IF neg THEN IntMin ELSE IntMax,
                   rest |-> r.rest]
             ELSE [fail |-> FALSE, val |-> r.val, rest |-> r.rest]

\* The digits of a floating-point field: a run of digits, at most one
\* decimal point.  frac counts the digits after the point; the value keeps
\* the first fractional digit (tenths).  The field has no spelling for a
\* non-finite value, so every element accepted is a finite number.
RECURSIVE ScanDouble(_, _, _, _, _)
ScanDouble(acc, nd, point, frac, s) ==
    IF s # <<>> /\ IsDigit(Head(s))
    THEN LET d == DigitVal(Head(s))
         IN  IF ~point
             THEN ScanDouble(acc * 10 + d * Unit,
                             nd + 1, point, frac, Tail(s))
             ELSE ScanDouble(IF frac = 0 THEN acc + d ELSE acc,
                             nd + 1, point, frac + 1, Tail(s))
    ELSE IF s # <<>> /\ Head(s) = "." /\ ~point
         THEN ScanDouble(acc, nd, TRUE, frac, Tail(s))
         ELSE [val |-> acc, nd |-> nd, rest |-> s]

\* cin >> input (double) on a stream whose sentry succeeded.
ExtractDouble(s0) ==
    LET s    == SkipWs(s0)
        sign == s # <<>> /\ Head(s) \in {"-", "+"}
        neg  == s # <<>> /\ Head(s) = "-"
        r    == ScanDouble(0, 0, FALSE, 0, IF sign THEN Tail(s) ELSE s)
    IN  IF r.nd = 0 THEN [fail |-> TRUE, val |-> 0, rest |-> r.rest]
        ELSE [fail |-> FALSE, val |-> IF neg THEN -r.val ELSE r.val,
              rest |-> r.rest]

\* cin.ignore(10000, '\n'): discard up to IgnoreMax characters, stopping
\* after the first newline.
RECURSIVE IgnoreN(_, _)
IgnoreN(k, s) ==
    IF k = 0 \/ s = <<>> THEN s
    ELSE IF Head(s) = NL THEN Tail(s) ELSE IgnoreN(k - 1, Tail(s))

Ignore(s) == IgnoreN(IgnoreMax, s)

-----------------------------------------------------------------------------
(* Formatting: cout << double with the stream's default precision *)

RECURSIVE Pow10(_)
Pow10(k) == IF k = 0 THEN 1 ELSE 10 * Pow10(k - 1)

Abs(v) == IF v < 0 THEN -v ELSE v

\* The power of ten by which a magnitude exceeds Precision significant digits.
RECURSIVE Excess(_, _)
Excess(a, p) == IF a \div p < Pow10(Precision) THEN p ELSE Excess(a, p * 10)

\* The number a text written by operator<<(double) denotes: the value
\* rounded to Precision significant digits, ties to even.
Format(v) ==
    LET a == Abs(v)
        p == Excess(a, 1)
        q == a \div p
        r == a % p
        up == 2 * r > p \/ (2 * r = p /\ q % 2 = 1)
        m == (IF up THEN q + 1 ELSE q) * p
    IN  IF v < 0 THEN -m ELSE m

Num(v) == [kind |-> "num", val |-> v]

Sp == [kind |-> "sp", val |-> 0]

Endl == [kind |-> "nl", val |-> 0]

-----------------------------------------------------------------------------
(* The program's own decisions *)

SizeRejectedOnFailOnly(r) == r.fail

\* getValidSize line 13
SizeRejected(r) == r.fail \/ r.val <= 0

ClampOmitted(size) == size

\* main lines 44 and 54
Clamp(size) == IF size > MaxSize THEN MaxSize ELSE size

GreaterOrEqual(a, b) == a >= b

Less(a, b) == a < b

\* main line 70
Greater(a, b) == a > b

PushFront(s, v) == <<v>> \o s

\* vector::push_back, lines 48, 58, 61 and 62
PushBack(s, v) == Append(s, v)

SwapOmitted(s, a, b) == s

\* main lines 74-76
Swap(s, a, b) == [s EXCEPT ![a + 1] = s[b + 1], ![b + 1] = s[a + 1]]

PrintItemBare(v) == <<Num(Format(v))>>

\* main line 82
PrintItem(v) == <<Num(Format(v)), Sp>>

SizePrompt1 == "How many would you want to place in the first array? (max 10): "

SizePrompt2 == "How many would you want to place in the second array? (max 10): "

EnterPrompt == "Enter <size> elements: "

InvalidSize == "Invalid input. Please enter a positive whole number: "

InvalidNumber == "Invalid input. Please enter a valid number: "

ResultLabel == "Merged and sorted array: "

-----------------------------------------------------------------------------
(* The user: lines typed at a size prompt and at a number prompt *)

SizeLines ==
    { <<"x", NL>>,
      <<"0", NL>>,
      <<"-", "3", NL>>,
      <<"1", NL>>,
      <<"3", NL>>,
      <<"2", ".", "5", NL>>,
      <<"1", "0", NL>>,
      <<"1", "1", NL>>,
      <<"2", "1", "4", "7", "4", "8", "3", "6", "4", "7", NL>>,
      <<"2", "1", "4", "7", "4", "8", "3", "6", "4", "8", NL>> }

NumberLines ==
    { <<"x", NL>>,
      <<"7", NL>>,
      <<"2", ".", "5", NL>>,
      <<"3", " ", "1", " ", "2", NL>>,
      <<"-", "1", " ", "7", " ", "7", NL>>,
      <<"1", "2", "3", "4", "5", "6", "5", " ",
        "1", "2", "3", "4", "5", "6", "7", NL>>,
      <<"5", " ", "3", " ", "5", " ", "1", " ", "4", " ", "2", " ", "5", " ",
        "1", " ", "3", " ", "2", NL>> }

SizePcs == {"size1", "size2"}

NumberPcs == {"collect1", "collect2"}

Init ==
    /\ pc = "size1"
    /\ buf = <<>>
    /\ eof = FALSE
    /\ typed = 0
    /\ prompt = SizePrompt1
    /\ size1 = Unset /\ size2 = Unset /\ num = Unset
    /\ arr1 = <<>> /\ arr2 = <<>> /\ mergedArray = <<>>
    /\ i = Unset /\ j = Unset
    /\ n = Unset /\ maxIndex = Unset /\ temp = Unset
    /\ printed = <<>>

\* The read blocks on an open, drained stdin until the user types a line.
TypeLine ==
    /\ Blocked
    /\ typed < MaxLines
    /\ \/ pc \in SizePcs /\ \E l \in SizeLines : buf' = buf \o l
       \/ pc \in NumberPcs /\ \E l \in NumberLines : buf' = buf \o l
    /\ typed' = typed + 1
    /\ UNCHANGED <<pc, eof, prompt, size1, size2, num, arr1, arr2,
                   mergedArray, i, j, n, maxIndex, temp, printed>>

\* The user ends the input (end of file) while a read is waiting.
CloseStdin ==
    /\ Blocked
    /\ pc \in SizePcs \cup NumberPcs
    /\ eof' = TRUE
    /\ UNCHANGED <<pc, buf, typed, prompt, size1, size2, num, arr1, arr2,
                   mergedArray, i, j, n, maxIndex, temp, printed>>

\* What one failed pass of getValidSize / getValidNumber leaves in the
\* variable and in the stream: the stored value (untouched when the sentry
\* failed at end of input) and the line discarded.
FailedValue(old, r) == IF CanExtract THEN r.val ELSE old

FailedRest(r) == IF CanExtract THEN Ignore(r.rest) ELSE <<>>

\* getValidSize(size1), one pass that ends in the retry branch
GetValidSize1Retry ==
    /\ pc = "size1"
    /\ CanExtract \/ eof
    /\ LET r == ExtractInt(buf) IN
        /\ ~CanExtract \/ SizeRejected(r)
        /\ size1' = FailedValue(size1, r)
        /\ buf' = FailedRest(r)
    /\ prompt' = InvalidSize
    /\ UNCHANGED <<pc, eof, typed, size2, num, arr1, arr2, mergedArray,
                   i, j, n, maxIndex, temp, printed>>

\* getValidSize(size1) returns; lines 44-46
GetValidSize1Break ==
    /\ pc = "size1"
    /\ CanExtract
    /\ LET r == ExtractInt(buf) IN
        /\ ~SizeRejected(r)
        /\ size1' = Clamp(r.val)
        /\ buf' = r.rest
    /\ i' = 0
    /\ IF i' < size1'
       THEN pc' = "collect1" /\ prompt' = EnterPrompt
       ELSE pc' = "size2" /\ prompt' = SizePrompt2
    /\ UNCHANGED <<eof, typed, size2, num, arr1, arr2, mergedArray,
                   j, n, maxIndex, temp, printed>>

\* getValidNumber(num) in the first loop, one pass that ends in the retry branch
GetValidNumber1Retry ==
    /\ pc = "collect1"
    /\ CanExtract \/ eof
    /\ LET r == ExtractDouble(buf) IN
        /\ ~CanExtract \/ r.fail
        /\ num' = FailedValue(num, r)
        /\ buf' = FailedRest(r)
    /\ prompt' = InvalidNumber
    /\ UNCHANGED <<pc, eof, typed, size1, size2, arr1, arr2, mergedArray,
                   i, j, n, maxIndex, temp, printed>>

\* getValidNumber(num) returns; lines 48-49, and 51-52 when the loop ends
GetValidNumber1Break ==
    /\ pc = "collect1"
    /\ CanExtract
    /\ LET r == ExtractDouble(buf) IN
        /\ ~r.fail
        /\ num' = r.val
        /\ buf' = r.rest
    /\ arr1' = PushBack(arr1, num')
    /\ i' = i + 1
    /\ IF i' < size1
       THEN pc' = "collect1" /\ prompt' = prompt
       ELSE pc' = "size2" /\ prompt' = SizePrompt2
    /\ UNCHANGED <<eof, typed, size1, size2, arr2, mergedArray,
                   j, n, maxIndex, temp, printed>>

\* getValidSize(size2), one pass that ends in the retry branch
GetValidSize2Retry ==
    /\ pc = "size2"
    /\ CanExtract \/ eof
    /\ LET r == ExtractInt(buf) IN
        /\ ~CanExtract \/ SizeRejected(r)
        /\ size2' = FailedValue(size2, r)
        /\ buf' = FailedRest(r)
    /\ prompt' = InvalidSize
    /\ UNCHANGED <<pc, eof, typed, size1, num, arr1, arr2, mergedArray,
                   i, j, n, maxIndex, temp, printed>>

\* getValidSize(size2) returns; lines 54-56
GetValidSize2Break ==
    /\ pc = "size2"
    /\ CanExtract
    /\ LET r == ExtractInt(buf) IN
        /\ ~SizeRejected(r)
        /\ size2' = Clamp(r.val)
        /\ buf' = r.rest
    /\ prompt' = EnterPrompt
    /\ i' = 0
    /\ pc' = IF 0 < size2' THEN "collect2" ELSE "concat1"
    /\ UNCHANGED <<eof, typed, size1, num, arr1, arr2, mergedArray,
                   j, n, maxIndex, temp, printed>>

\* getValidNumber(num) in the second loop, one pass that ends in the retry branch
GetValidNumber2Retry ==
    /\ pc = "collect2"
    /\ CanExtract \/ eof
    /\ LET r == ExtractDouble(buf) IN
        /\ ~CanExtract \/ r.fail
        /\ num' = FailedValue(num, r)
        /\ buf' = FailedRest(r)
    /\ prompt' = InvalidNumber
    /\ UNCHANGED <<pc, eof, typed, size1, size2, arr1, arr2, mergedArray,
                   i, j, n, maxIndex, temp, printed>>

\* getValidNumber(num) returns; lines 58-59, and the loop's exit to line 61
GetValidNumber2Break ==
    /\ pc = "collect2"
    /\ CanExtract
    /\ LET r == ExtractDouble(buf) IN
        /\ ~r.fail
        /\ num' = r.val
        /\ buf' = r.rest
    /\ arr2' = PushBack(arr2, num')
    /\ IF i + 1 < size2
       THEN pc' = "collect2" /\ i' = i + 1
       ELSE pc' = "concat1" /\ i' = 0
    /\ UNCHANGED <<eof, typed, prompt, size1, size2, arr1, mergedArray,
                   j, n, maxIndex, temp, printed>>

\* line 61: for (int i = 0; i < size1; i++) mergedArray.push_back(arr1[i])
Concat1 ==
    /\ pc = "concat1"
    /\ IF i < size1
       THEN /\ mergedArray' = PushBack(mergedArray, At(arr1, i))
            /\ i' = i + 1
            /\ pc' = pc
       ELSE /\ mergedArray' = mergedArray
            /\ i' = 0
            /\ pc' = "concat2"
    /\ UNCHANGED <<buf, eof, typed, prompt, size1, size2, num, arr1, arr2,
                   j, n, maxIndex, temp, printed>>

\* line 62, and line 64 (n = mergedArray.size()) when the loop ends
Concat2 ==
    /\ pc = "concat2"
    /\ IF i < size2
       THEN /\ mergedArray' = PushBack(mergedArray, At(arr2, i))
            /\ i' = i + 1
            /\ pc' = pc
            /\ n' = n
       ELSE /\ mergedArray' = mergedArray
            /\ n' = Len(mergedArray)
            /\ i' = 0
            /\ pc' = "outer"
    /\ UNCHANGED <<buf, eof, typed, prompt, size1, size2, num, arr1, arr2,
                   j, maxIndex, temp, printed>>

\* lines 67-69: the outer loop's test, maxIndex = i, the inner loop's j = i + 1;
\* lines 79-81 when the outer loop ends
SortOuter ==
    /\ pc = "outer"
    /\ IF i < n - 1
       THEN /\ maxIndex' = i
            /\ j' = i + 1
            /\ i' = i
            /\ pc' = "inner"
            /\ prompt' = prompt
       ELSE /\ maxIndex' = maxIndex
            /\ j' = j
            /\ i' = 0
            /\ pc' = "print"
            /\ prompt' = ResultLabel
    /\ UNCHANGED <<buf, eof, typed, size1, size2, num, arr1, arr2,
                   mergedArray, n, temp, printed>>

\* lines 69-73: one pass of the inner loop
SortInner ==
    /\ pc = "inner"
    /\ IF j < n
       THEN /\ maxIndex' = IF Greater(At(mergedArray, j), At(mergedArray, maxIndex))
                           THEN j ELSE maxIndex
            /\ j' = j + 1
            /\ pc' = pc
       ELSE /\ maxIndex' = maxIndex
            /\ j' = j
            /\ pc' = "swap"
    /\ UNCHANGED <<buf, eof, typed, prompt, size1, size2, num, arr1, arr2,
                   mergedArray, i, n, temp, printed>>

SortSwapNoAdvance ==
    /\ pc = "swap"
    /\ temp' = At(mergedArray, i)
    /\ mergedArray' = Swap(mergedArray, i, maxIndex)
    /\ pc' = "outer"
    /\ UNCHANGED <<buf, eof, typed, prompt, size1, size2, num, arr1, arr2,
                   i, j, n, maxIndex, printed>>

\* lines 74-76, and the outer loop's i++
SortSwap ==
    /\ pc = "swap"
    /\ temp' = At(mergedArray, i)
    /\ mergedArray' = Swap(mergedArray, i, maxIndex)
    /\ i' = i + 1
    /\ pc' = "outer"
    /\ UNCHANGED <<buf, eof, typed, prompt, size1, size2, num, arr1, arr2,
                   j, n, maxIndex, printed>>

\* lines 81-84: one element and its separator; endl when the loop ends
PrintLoop ==
    /\ pc = "print"
    /\ IF i < n
       THEN /\ printed' = printed \o PrintItem(At(mergedArray, i))
            /\ i' = i + 1
            /\ pc' = pc
       ELSE /\ printed' = Append(printed, Endl)
            /\ i' = i
            /\ pc' = "done"
    /\ UNCHANGED <<buf, eof, typed, prompt, size1, size2, num, arr1, arr2,
                   mergedArray, j, n, maxIndex, temp>>

\* The steps that read standard input
ReadStep ==
    \/ GetValidSize1Retry \/ GetValidSize1Break
    \/ GetValidNumber1Retry \/ GetValidNumber1Break
    \/ GetValidSize2Retry \/ GetValidSize2Break
    \/ GetValidNumber2Retry \/ GetValidNumber2Break

\* The steps that need no input: lines 61-84
ComputeStep ==
    \/ Concat1 \/ Concat2
    \/ SortOuter \/ SortInner \/ SortSwap
    \/ PrintLoop

Next == ReadStep \/ ComputeStep \/ TypeLine \/ CloseStdin

Spec == Init /\ [][Next]_vars

\* The process is scheduled: once the input is complete, a step of the
\* program that can be taken is taken.  Nothing is assumed of the user, nor
\* of how long a read takes.
FairSpec == Spec /\ WF_vars(ComputeStep)

-----------------------------------------------------------------------------
(* Definitions used to state the properties *)

ReadPcs == SizePcs \cup NumberPcs

SortPcs == {"outer", "inner", "swap"}

Merged == arr1 \o arr2

NonIncreasing(s) == \A k \in 1..(Len(s) - 1) : s[k] >= s[k + 1]

Range(s) == {s[k] : k \in 1..Len(s)}

Count(s, v) == Cardinality({k \in 1..Len(s) : s[k] = v})

SameMultiset(s, t) ==
    /\ Len(s) = Len(t)
    /\ \A v \in Range(s) \cup Range(t) : Count(s, v) = Count(t, v)

\* The numbers written after the label, in order
PrintedNumbers ==
    LET nums == SelectSeq(printed, LAMBDA x : x.kind = "num")
    IN  [k \in 1..Len(nums) |-> nums[k].val]

\* The largest value at the 0-based positions from..(n - 1) of a vector
MaxFrom(s, from) ==
    CHOOSE v \in {s[k] : k \in (from + 1)..Len(s)} :
        \A k \in (from + 1)..Len(s) : s[k] <= v

\* The first 0-based position at or after from that holds MaxFrom
FirstMaxIndex(s, from) ==
    CHOOSE k \in from..(Len(s) - 1) :
        /\ At(s, k) = MaxFrom(s, from)
        /\ \A m \in from..(k - 1) : At(s, m) # MaxFrom(s, from)

-----------------------------------------------------------------------------
(* C1 *)

\* C1: the numbers printed after "Merged and sorted array: " are
\* non-increasing, each at least the one printed after it; they are printed
\* from a vector that is itself non-increasing.
C1_PrintedNonIncreasing ==
    /\ NonIncreasing(PrintedNumbers)
    /\ pc \in {"print", "done"} => NonIncreasing(mergedArray)

\* A finished run whose sort had to reorder at least three distinct values.
C1_Witness ==
    /\ pc = "done"
    /\ mergedArray # Merged
    /\ Cardinality(Range(PrintedNumbers)) >= 3

-----------------------------------------------------------------------------
(* C2 *)

\* C2: the multiset of printed values equals the multiset of the values
\* accepted into the two arrays; the sort only permutes the merged vector,
\* after every swap as well as at the end.
C2_PrintedMultisetIsEntered ==
    /\ pc \in SortPcs \cup {"print", "done"} => SameMultiset(mergedArray, Merged)
    /\ pc = "done" => SameMultiset(PrintedNumbers, Merged)

-----------------------------------------------------------------------------
(* C3 *)

ConcatInOrder ==
    /\ pc = "concat1" => mergedArray = SubSeq(arr1, 1, i)
    /\ pc = "concat2" => mergedArray = arr1 \o SubSeq(arr2, 1, i)
    /\ pc = "outer" /\ i = 0 =>
          /\ mergedArray = arr1 \o arr2
          /\ n = Len(arr1) + Len(arr2)
          /\ Len(mergedArray) = Len(arr1) + Len(arr2)

\* C3: before the sort starts the merged vector is arr1's elements in their
\* entered order followed by arr2's, so its length is the sum of theirs, and
\* the concatenation leaves arr1 and arr2 as they were.
C3_ConcatInOrder ==
    /\ []ConcatInOrder
    /\ [][(pc \in {"concat1", "concat2"}) => (arr1' = arr1 /\ arr2' = arr2)]_vars

\* The concatenation of two different vectors of several elements is done.
C3_Witness ==
    /\ pc = "outer" /\ i = 0
    /\ Len(arr1) >= 2 /\ Len(arr2) >= 2
    /\ arr1 # arr2
    /\ Cardinality(Range(mergedArray)) >= 3

-----------------------------------------------------------------------------
(* C4 *)

\* The field at the front of a stream: the characters up to the next
\* whitespace, and what follows them
RECURSIVE Field(_)
Field(s) ==
    IF s = <<>> \/ IsSpace(Head(s)) THEN <<>> ELSE <<Head(s)>> \o Field(Tail(s))

AfterField(s) == SubSeq(SkipWs(s), Len(Field(SkipWs(s))) + 1, Len(SkipWs(s)))

RECURSIVE StripZeros(_)
StripZeros(f) ==
    IF Len(f) > 1 /\ Head(f) = "0" THEN StripZeros(Tail(f)) ELSE f

\* The field is a whole number written in decimal digits, greater than
\* MaxSize (read off the digits: longer than two digits, or two digits
\* that exceed it)
IsWholeNumberAboveMax(f) ==
    /\ f # <<>>
    /\ \A k \in 1..Len(f) : IsDigit(f[k])
    /\ LET d == StripZeros(f) IN
         \/ Len(d) > 2
         \/ Len(d) = 2 /\ DigitVal(d[1]) * 10 + DigitVal(d[2]) > MaxSize

OversizeAnswer ==
    pc \in SizePcs /\ CanExtract /\ IsWholeNumberAboveMax(Field(SkipWs(buf)))

\* C4: a size answer that is an integer greater than 10 is taken exactly as
\* the answer 10 is: it is accepted, the array's size becomes 10, the read
\* moves on to that array's elements and the stream continues right after the
\* answer, so that the same remaining input gives the same run.
C4_OversizeActsAsTen ==
    [][OversizeAnswer =>
         /\ buf' = AfterField(buf)
         /\ pc = "size1" => (pc' = "collect1" /\ size1' = MaxSize)
         /\ pc = "size2" => (pc' = "collect2" /\ size2' = MaxSize)]_vars

-----------------------------------------------------------------------------
(* C5 *)

\* C5: a finished input vector has between 1 and 10 elements whatever was
\* typed, no vector ever holds more than 10, and the merged vector that is
\* sorted and printed has between 2 and 20.
C5_LengthsInRange ==
    /\ Len(arr1) <= MaxSize /\ Len(arr2) <= MaxSize
    /\ pc \notin {"size1", "collect1"} =>
          (Len(arr1) \in 1..MaxSize /\ Len(arr1) = size1)
    /\ pc \notin {"size1", "collect1", "size2", "collect2"} =>
          (Len(arr2) \in 1..MaxSize /\ Len(arr2) = size2)
    /\ pc \in SortPcs \cup {"print", "done"} =>
          (Len(mergedArray) \in 2..(2 * MaxSize) /\ n = Len(mergedArray))

\* Both sizes were clamped and both vectors filled to the cap.
C5_Witness ==
    /\ pc = "done"
    /\ Len(arr1) = MaxSize /\ Len(arr2) = MaxSize
    /\ Len(mergedArray) = 2 * MaxSize

-----------------------------------------------------------------------------
(* C6 *)

\* The read at the current prompt goes ahead and finds no valid value: at a
\* size prompt no number or one that is not positive, at a number prompt no
\* number, at either the end of the input.
InvalidAtPrompt ==
    /\ pc \in ReadPcs
    /\ CanExtract \/ eof
    /\ \/ ~CanExtract
       \/ pc \in SizePcs /\ (ExtractInt(buf).fail \/ ExtractInt(buf).val <= 0)
       \/ pc \in NumberPcs /\ ExtractDouble(buf).fail

ValidAtPrompt ==
    /\ pc \in ReadPcs
    /\ CanExtract
    /\ pc \in SizePcs => (~ExtractInt(buf).fail /\ ExtractInt(buf).val > 0)
    /\ pc \in NumberPcs => ~ExtractDouble(buf).fail

\* The number of elements the current collection loop still has to read
Remaining ==
    IF pc = "collect1" THEN size1 - i
    ELSE IF pc = "collect2" THEN size2 - i ELSE 0

\* C6: an invalid input is answered with the "Invalid input" message of its
\* prompt and nothing else: the program stays at the same prompt, both
\* vectors and the count of elements still to read are unchanged, and it does
\* not terminate; the flow advances only on a valid value.
C6_InvalidInputRetries ==
    /\ [][InvalidAtPrompt =>
            /\ pc' = pc /\ pc' # "done"
            /\ prompt' = (IF pc \in SizePcs THEN InvalidSize ELSE InvalidNumber)
            /\ arr1' = arr1 /\ arr2' = arr2
            /\ Remaining' = Remaining]_vars
    /\ [][(pc \in ReadPcs /\ (pc' # pc \/ arr1' # arr1 \/ arr2' # arr2))
            => ValidAtPrompt]_vars

\* An invalid number has just been refused in the middle of the second
\* collection, with elements already stored and more to come.
C6_Witness ==
    /\ pc = "collect2"
    /\ prompt = InvalidNumber
    /\ Len(arr2) >= 1 /\ Remaining >= 1

-----------------------------------------------------------------------------
(* C7 *)

\* What was printed has the kinds ks, in order
PrintedKinds == [k \in 1..Len(printed) |-> printed[k].kind]

\* n numbers with one space between consecutive ones, then the newline
SeparatedKinds(len) ==
    [k \in 1..(2 * len) |->
        IF k % 2 = 1 THEN "num" ELSE IF k < 2 * len THEN "sp" ELSE "nl"]

\* C7 as stated: the elements are separated by exactly one space and the last
\* element is followed directly by the newline.
C7_LastElementThenNewline ==
    pc = "done" => PrintedKinds = SeparatedKinds(n)

\* C7 as amended: every element, the last one included, is followed by
\* exactly one space, and the newline follows the last space.
C7_EveryElementThenSpace ==
    /\ pc = "print" => Len(printed) = 2 * i
    /\ pc = "done" => (Len(printed) = 2 * n + 1 /\ printed[2 * n + 1] = Endl)
    /\ pc \in {"print", "done"} =>
          \A k \in 1..(IF pc = "done" THEN n ELSE i) :
              /\ printed[2 * k - 1] = Num(Format(mergedArray[k]))
              /\ printed[2 * k] = Sp

\* A run that printed at least three elements and ended the line.
C7_Witness ==
    /\ pc = "done"
    /\ n >= 3
    /\ printed[Len(printed)] = Endl

-----------------------------------------------------------------------------
(* C8 *)

\* The stages of main, in the order of the source
Stage ==
    CASE pc = "size1" -> 0
      [] pc = "collect1" -> 1
      [] pc = "size2" -> 2
      [] pc = "collect2" -> 3
      [] pc = "concat1" -> 4
      [] pc = "concat2" -> 5
      [] pc \in SortPcs -> 6
      [] pc = "print" -> 7
      [] pc = "done" -> 8

\* The number of valid values the program has accepted so far
Accepted ==
    Len(arr1) + Len(arr2)
        + (IF pc = "size1" THEN 0 ELSE IF pc \in {"collect1", "size2"} THEN 1 ELSE 2)

PrintComplete ==
    /\ Len(mergedArray) = Len(arr1) + Len(arr2)
    /\ NonIncreasing(mergedArray)
    /\ Len(PrintedNumbers) = Len(mergedArray)
    /\ printed # <<>> /\ printed[Len(printed)] = Endl

\* C8: main returns only after the whole merged and sorted vector has been
\* printed; the stages follow one another in the order collect A, collect B,
\* concatenate, sort, print; the sort makes at most n - 1 outer passes.  A
\* run ends unless it stays for ever in the reads: as at most 2 * MaxSize + 2
\* values are ever accepted and the count never decreases, such a run waits
\* for ever at one prompt for a valid value that does not come.  Once the
\* input has ended at a prompt the program stays at that prompt.
C8_TerminatesAfterPrinting ==
    /\ [](pc = "done" => PrintComplete)
    /\ [](pc \in SortPcs => (0 <= i /\ i <= n - 1))
    /\ [][Stage' \in {Stage, Stage + 1}]_vars
    /\ [][(pc \in ReadPcs /\ eof /\ ~CanExtract)
             => (pc' = pc /\ eof' /\ ~CanExtract')]_vars
    /\ [](Accepted <= 2 * MaxSize + 2)
    /\ [][Accepted' >= Accepted]_vars
    /\ <>(pc = "done") \/ <>[](pc \in ReadPcs)

\* A run that went through every stage with valid and invalid answers and
\* returned.
C8_Witness ==
    /\ pc = "done"
    /\ PrintComplete
    /\ typed = MaxLines
    /\ n >= 4

-----------------------------------------------------------------------------
(* C9 *)

\* C9: when the scan of an outer pass i (0 <= i <= n - 2) is over, maxIndex
\* is the first position in i..n-1 that holds the maximum of the unsorted
\* remainder; if position i already holds it then maxIndex = i and the swap
\* leaves the vector as it is.
C9_FirstMaximumSelected ==
    /\ [](pc = "swap" =>
            /\ 0 <= i /\ i <= n - 2
            /\ maxIndex = FirstMaxIndex(mergedArray, i))
    /\ [][(pc = "swap" /\ At(mergedArray, i) = MaxFrom(mergedArray, i))
            => (maxIndex = i /\ mergedArray' = mergedArray)]_vars

\* A scan ended on a maximum that occurs again later in the remainder, and
\* not at position i.
C9_Witness ==
    /\ pc = "swap"
    /\ maxIndex > i
    /\ \E k \in (maxIndex + 1)..(n - 1) :
          At(mergedArray, k) = At(mergedArray, maxIndex)

-----------------------------------------------------------------------------
(* C10 *)

\* At pc = "outer" i passes are complete; at "inner" and "swap" pass i is
\* under way and the passes before it are complete.
SortedPrefix ==
    /\ \A a \in 0..(i - 2) : At(mergedArray, a) >= At(mergedArray, a + 1)
    /\ \A a \in 0..(i - 1) : \A b \in i..(n - 1) :
          At(mergedArray, a) >= At(mergedArray, b)

ScanInBounds ==
    /\ 0 <= i /\ i <= n - 2
    /\ i <= maxIndex /\ maxIndex <= n - 1
    /\ maxIndex < j /\ j <= n
    /\ n = Len(mergedArray)

\* C10: after each outer pass the sorted prefix is non-increasing and every
\* element of it is at least every element after it; later passes never
\* write to the prefix; during the scan maxIndex stays within i..n-1 and j
\* within the vector, so every access is in bounds.
C10_SortLoopInvariant ==
    /\ [](pc \in SortPcs => SortedPrefix)
    /\ [](pc \in {"inner", "swap"} => ScanInBounds)
    /\ [][(pc \in SortPcs) =>
            \A k \in 0..(i - 1) : At(mergedArray', k) = At(mergedArray, k)]_vars

\* A scan in a later pass found a larger element while the prefix already
\* holds two different values.
C10_Witness ==
    /\ pc = "inner"
    /\ i >= 2
    /\ maxIndex > i
    /\ At(mergedArray, 0) > At(mergedArray, 1)

====
